---- MODULE Spec2Model ----
(***************************************************************************)
(* Model of nb.py: the interactive generation script.  One model-selection *)
(* prompt, then for every prompt file a master-image request, an operator  *)
(* gate and a loop of pose requests.  The external service, the operator   *)
(* and the wall clock are the environment: the answers of the first two   *)
(* are drawn from small sets, a reading of the clock is an opaque value.   *)
(* Strings read from standard input are sequences of one-character         *)
(* strings; byte strings returned by the service are opaque tokens that    *)
(* decode as images.  The file system is the set of paths of the files     *)
(* written.                                                                *)
(***************************************************************************)
EXTENDS Integers, Sequences, FiniteSets, TLC

\* ---- bounds of the model ----
NumFiles == 2      \* number of .txt files found in the prompts folder
NumPoses == 2      \* length of the pose list
NumImages == 2     \* distinct image byte strings the service may return
MaxParts == 2      \* longest list of content parts in a response
MaxLen == 3        \* longest line the operator types

\* ---- Python values ----
None == [tag |-> "None"]
Some(v) == [tag |-> "Some", val |-> v]
IsNone(x) == x.tag = "None"

SeqsUpTo(S, n) == UNION {[1..k -> S] : k \in 0..n}

\* ---- str.strip() and str.lower() ----
Whitespace == {" "}

RECURSIVE LStrip(_)
LStrip(s) ==
    IF s # <<>> /\ Head(s) \in Whitespace THEN LStrip(Tail(s)) ELSE s

RECURSIVE RStrip(_)
RStrip(s) ==
    IF s # <<>> /\ s[Len(s)] \in Whitespace
    THEN RStrip(SubSeq(s, 1, Len(s) - 1)) ELSE s

Strip(s) == RStrip(LStrip(s))

LowerChar(c) == IF c = "Y" THEN "y" ELSE IF c = "N" THEN "n" ELSE c

LowerIdentity(s) == s
Lower(s) == [k \in 1..Len(s) |-> LowerChar(s[k])]

\* ---- lines the operator may type ----
ModelChars == {" ", "1", "2", "x"}
GateChars == {" ", "y", "Y", "n"}
ModelLines == SeqsUpTo(ModelChars, MaxLen)
GateLines == SeqsUpTo(GateChars, MaxLen)

\* ---- configuration of the script ----
FLASH == "gemini-2.5-flash-image"
PRO == "gemini-3-pro-image-preview"
MODELS == (<<"1">> :> FLASH) @@ (<<"2">> :> PRO)

MODELS_get_pro_default(key, default) ==
    IF key \in DOMAIN MODELS THEN MODELS[key] ELSE PRO
MODELS_get(key, default) ==
    IF key \in DOMAIN MODELS THEN MODELS[key] ELSE default

SLEEP_SECONDS == 2
face_bytes == 0
ImageData == 1..NumImages
POSES == [k \in 1..NumPoses |-> <<"pose label", k>>]
files == [k \in 1..NumFiles |-> [root |-> <<"prompt", k>>, ext |-> ".txt"]]
splitext_root(filename) == filename.root
MASTER_FILE == <<"00_MASTER_CONCEPT.png">>
pose_file_zero_based(i) == <<"pose_", i, ".png">>
pose_file(i) == <<"pose_", i + 1, ".png">>
\* int(time.time()) as read by the k-th iteration of the main loop
time_at(k) == <<"time", k>>

\* ---- responses of the service ----
TextPart == [inline_data |-> None]
ImagePart(d) == [inline_data |-> Some(d)]
PartValues == {TextPart} \cup {ImagePart(d) : d \in ImageData}
PartLists == SeqsUpTo(PartValues, MaxParts)
Responses ==
    {[candidates |-> None], [candidates |-> Some(<<>>)],
     [candidates |-> Some(<<[content |-> None]>>)],
     [candidates |-> Some(<<[content |-> Some([parts |-> None])]>>)]}
    \cup {[candidates |-> Some(<<[content |-> Some([parts |-> Some(ps)])]>>)] :
              ps \in PartLists}

\* truth value of an optional list: None and the empty list are falsy
TruthyList(x) == ~IsNone(x) /\ x.val # <<>>
\* truth value of optional bytes
TruthyBytes(x) == ~IsNone(x)

\* ---- save_image ----
\* The result: raised (an AttributeError on content None), the value
\* returned, and the data handed to img.save (None when nothing is written).
RECURSIVE FirstInline(_)
FirstInline(parts) ==
    IF parts = <<>> THEN None
    ELSE IF ~IsNone(Head(parts).inline_data) THEN Head(parts).inline_data
    ELSE FirstInline(Tail(parts))

save_image(response) ==
    IF ~TruthyList(response.candidates)
    THEN [raised |-> FALSE, ret |-> None, written |-> None]
    ELSE LET content == response.candidates.val[1].content IN
         IF IsNone(content)
         THEN [raised |-> TRUE, ret |-> None, written |-> None]
         ELSE IF ~TruthyList(content.val.parts)
         THEN [raised |-> FALSE, ret |-> None, written |-> None]
         ELSE LET d == FirstInline(content.val.parts.val) IN
              [raised |-> FALSE, ret |-> d, written |-> d]

VARIABLES pc, SELECTED_MODEL, f, current_output_dir, master_image_bytes,
          i, dirs, fs, issued, log, io

\* pc, SELECTED_MODEL, f, current_output_dir, master_image_bytes and i are
\* the script's position and variables, dirs and fs the directories and
\* files on disk.  issued counts the master requests per prompt file, log
\* lists the events of the current iteration of the main loop, io holds the
\* line the last step read from standard input.
vars == <<pc, SELECTED_MODEL, f, current_output_dir, master_image_bytes,
          i, dirs, fs, issued, log, io>>

clean_name == splitext_root(files[f])

\* os.makedirs(d, exist_ok=True)
makedirs_noop(ds, d) == ds
makedirs(ds, d) == ds \cup {d}

\* img.save(path)
WriteFile(disk, path) == disk \cup {path}

Init ==
    /\ pc = "select"
    /\ SELECTED_MODEL = "unset"
    /\ f = 0
    /\ current_output_dir = <<>>
    /\ master_image_bytes = None
    /\ i = 0
    /\ dirs = {}
    /\ fs = {}
    /\ issued = [k \in 1..NumFiles |-> 0]
    /\ log = <<>>
    /\ io = [op |-> "none"]

\* lines 78-81
SelectModel ==
    /\ pc = "select"
    /\ \E line \in ModelLines :
         LET choice == Strip(line) IN
         /\ SELECTED_MODEL' = MODELS_get(choice, FLASH)
         /\ io' = [op |-> "select", line |-> line]
    /\ pc' = "loop"
    /\ UNCHANGED <<f, current_output_dir, master_image_bytes, i, dirs, fs, issued, log>>

\* lines 85-114: next file of the listing, run directory, reset of the bytes
BeginPrompt ==
    /\ pc = "loop"
    /\ f < Len(files)
    /\ f' = f + 1
    /\ LET name == splitext_root(files[f + 1])
           run_id == time_at(f + 1)
           d == <<name, run_id>> IN
       /\ current_output_dir' = d
       /\ dirs' = makedirs(dirs, d)
       /\ log' = <<[type |-> "makedirs", prompt |-> name, dir |-> d]>>
    /\ master_image_bytes' = None
    /\ pc' = "master"
    /\ io' = [op |-> "none"]
    /\ UNCHANGED <<SELECTED_MODEL, i, fs, issued>>

\* line 176: the listing is exhausted
SessionComplete ==
    /\ pc = "loop"
    /\ f = Len(files)
    /\ pc' = "done"
    /\ io' = [op |-> "none"]
    /\ UNCHANGED <<SELECTED_MODEL, f, current_output_dir, master_image_bytes,
                   i, dirs, fs, issued, log>>

MasterReq ==
    [type |-> "master_req", prompt |-> clean_name, model |-> SELECTED_MODEL,
     image |-> face_bytes]
MasterRes(outcome, data) ==
    [type |-> "master_res", prompt |-> clean_name, outcome |-> outcome, data |-> data]

\* the run abandoned at the first exception of a master request
MasterRaisesBreak ==
    /\ pc = "master"
    /\ log' = log \o <<MasterReq, MasterRes("raised", None)>>
    /\ issued' = [issued EXCEPT ![f] = @ + 1]
    /\ pc' = "done"
    /\ io' = [op |-> "none"]
    /\ UNCHANGED <<SELECTED_MODEL, f, current_output_dir, master_image_bytes,
                   i, dirs, fs>>
\* lines 116-128, generate_content raises: continue
MasterRaises ==
    /\ pc = "master"
    /\ log' = log \o <<MasterReq, MasterRes("raised", None)>>
    /\ issued' = [issued EXCEPT ![f] = @ + 1]
    /\ pc' = "loop"
    /\ io' = [op |-> "none"]
    /\ UNCHANGED <<SELECTED_MODEL, f, current_output_dir, master_image_bytes,
                   i, dirs, fs>>

\* line 130
MasterMissingNever(bytes) == FALSE
MasterMissing(bytes) == ~TruthyBytes(bytes)

\* lines 116-132, generate_content returns a response; an exception of
\* save_image is caught at line 126 like one of the service
MasterResponds ==
    /\ pc = "master"
    /\ \E response \in Responses :
         LET r == save_image(response)
             path == <<current_output_dir, MASTER_FILE>> IN
         IF r.raised
         THEN /\ log' = log \o <<MasterReq, MasterRes("save_raised", None)>>
              /\ pc' = "loop"
              /\ UNCHANGED <<master_image_bytes, fs>>
         ELSE /\ master_image_bytes' = r.ret
              /\ fs' = IF IsNone(r.written) THEN fs ELSE WriteFile(fs, path)
              /\ IF MasterMissing(r.ret)
                 THEN /\ log' = log \o <<MasterReq, MasterRes("no_image", None)>>
                      /\ pc' = "loop"
                 ELSE /\ log' = log \o <<MasterReq, MasterRes("saved", r.ret)>>
                      /\ pc' = "gate"
    /\ issued' = [issued EXCEPT ![f] = @ + 1]
    /\ io' = [op |-> "none"]
    /\ UNCHANGED <<SELECTED_MODEL, f, current_output_dir, i, dirs>>

\* lines 136-143
OperatorGate ==
    /\ pc = "gate"
    /\ \E line \in GateLines :
         LET user_choice == Lower(Strip(line)) IN
         /\ io' = [op |-> "gate", line |-> line]
         /\ IF user_choice # <<"y">>
            THEN /\ log' = Append(log, [type |-> "gate", prompt |-> clean_name,
                                        proceed |-> FALSE])
                 /\ pc' = "loop"
            ELSE /\ log' = Append(log, [type |-> "gate", prompt |-> clean_name,
                                        proceed |-> TRUE])
                 /\ pc' = IF Len(POSES) > 0 THEN "poses" ELSE "loop"
    /\ i' = 0
    /\ UNCHANGED <<SELECTED_MODEL, f, current_output_dir, master_image_bytes,
                   dirs, fs, issued>>

\* line 161: the image attached to a pose request
pose_request_image_face == Some(face_bytes)
pose_request_image == master_image_bytes

PoseReq ==
    [type |-> "pose_req", prompt |-> clean_name, index |-> i + 1,
     label |-> POSES[i + 1], model |-> SELECTED_MODEL, image |-> pose_request_image]
PoseRes(returned) ==
    [type |-> "pose_res", prompt |-> clean_name, index |-> i + 1, returned |-> returned]
Sleep == [type |-> "sleep", secs |-> SLEEP_SECONDS]

\* line 145: the next iteration of enumerate(POSES), or line 174
AfterPose == IF i + 1 < Len(POSES) THEN "poses" ELSE "loop"

\* the pose loop left at the first exception
PoseRaisesBreak ==
    /\ pc = "poses"
    /\ log' = log \o <<PoseReq, PoseRes(FALSE)>>
    /\ i' = i + 1
    /\ pc' = "loop"
    /\ io' = [op |-> "none"]
    /\ UNCHANGED <<SELECTED_MODEL, f, current_output_dir, master_image_bytes,
                   dirs, fs, issued>>
\* lines 157-172, generate_content raises: no save, no sleep
PoseRaises ==
    /\ pc = "poses"
    /\ log' = log \o <<PoseReq, PoseRes(FALSE)>>
    /\ i' = i + 1
    /\ pc' = AfterPose
    /\ io' = [op |-> "none"]
    /\ UNCHANGED <<SELECTED_MODEL, f, current_output_dir, master_image_bytes,
                   dirs, fs, issued>>

\* the response carries inline image data in its first candidate
HasInlineImage(response) ==
    /\ ~IsNone(response.candidates)
    /\ Len(response.candidates.val) > 0
    /\ LET c == response.candidates.val[1] IN
       /\ ~IsNone(c.content)
       /\ ~IsNone(c.content.val.parts)
       /\ \E k \in 1..Len(c.content.val.parts.val) :
             ~IsNone(c.content.val.parts.val[k].inline_data)

\* lines 157-172, generate_content returns a response; an exception of
\* save_image skips the sleep like one of the service
PoseResponds ==
    /\ pc = "poses"
    /\ \E response \in Responses :
         LET r == save_image(response)
             path == <<current_output_dir, pose_file(i)>> IN
         IF r.raised
         THEN /\ log' = log \o <<PoseReq, PoseRes(HasInlineImage(response))>>
              /\ UNCHANGED fs
         ELSE /\ fs' = IF IsNone(r.written) THEN fs ELSE WriteFile(fs, path)
              /\ log' = log \o <<PoseReq, PoseRes(HasInlineImage(response)), Sleep>>
    /\ i' = i + 1
    /\ pc' = AfterPose
    /\ io' = [op |-> "none"]
    /\ UNCHANGED <<SELECTED_MODEL, f, current_output_dir, master_image_bytes,
                   dirs, issued>>

Next ==
    \/ SelectModel
    \/ BeginPrompt
    \/ SessionComplete
    \/ MasterRaises
    \/ MasterResponds
    \/ OperatorGate
    \/ PoseRaises
    \/ PoseResponds

Spec == Init /\ [][Next]_vars

\* the script is one sequential process: a step that can be taken is taken
FairSpec == Spec /\ WF_vars(Next)

\* ---- save_image on its own: any response, any path of a run directory ----
SavePaths ==
    {<<<<splitext_root(files[k]), time_at(k)>>, name>> :
        k \in 1..NumFiles,
        name \in {MASTER_FILE} \cup {pose_file(n) : n \in 0..(Len(POSES) - 1)}}

SaveInit ==
    /\ pc = "save_image"
    /\ SELECTED_MODEL = "unset"
    /\ f = 0
    /\ current_output_dir = <<>>
    /\ master_image_bytes = None
    /\ i = 0
    /\ dirs = {}
    /\ fs = {}
    /\ issued = [k \in 1..NumFiles |-> 0]
    /\ log = <<>>
    /\ \E response \in Responses, path \in SavePaths :
          io = [op |-> "call", response |-> response, path |-> path]

\* lines 46-55
SaveImageCall ==
    /\ pc = "save_image"
    /\ LET r == save_image(io.response) IN
       /\ io' = [op |-> "save", response |-> io.response, path |-> io.path,
                 result |-> r]
       /\ fs' = IF IsNone(r.written) THEN fs ELSE WriteFile(fs, io.path)
       /\ pc' = IF r.raised THEN "raised" ELSE "returned"
    /\ UNCHANGED <<SELECTED_MODEL, f, current_output_dir, master_image_bytes,
                   i, dirs, issued, log>>

SaveSpec == SaveInit /\ [][SaveImageCall]_vars

TypeOK ==
    /\ pc \in {"select", "loop", "master", "gate", "poses", "done",
               "save_image", "raised", "returned"}
    /\ SELECTED_MODEL \in {"unset", FLASH, PRO}
    /\ f \in 0..NumFiles
    /\ i \in 0..NumPoses
    /\ \A k \in 1..NumFiles : issued[k] \in 0..1

\* ---- reading the log of the current iteration ----
Events(type) == {k \in 1..Len(log) : log[k].type = type}
FilesIn(d) == {path \in fs : path[1] = d}
FileExists(name) == <<current_output_dir, name>> \in fs
\* the current iteration of the main loop has ended
Finished == f >= 1 /\ pc \in {"loop", "done"}
PoseReqs ==
    LET T(e) == e.type = "pose_req" IN SelectSeq(log, T)
\* the line is one character of cs surrounded by whitespace only
TrimsTo(line, cs) ==
    \E k \in 1..Len(line) :
        /\ line[k] \in cs
        /\ \A j \in (1..Len(line)) \ {k} : line[j] \in Whitespace
PoseFileNames == {<<"pose_", k, ".png">> : k \in 1..Len(POSES)}

\* C1: a pose request or an operator gate for a prompt occurs only after the
\* master step of that prompt returned image bytes and saved them; after a
\* master request that raised or returned no image there is none.
C1_PoseOnlyAfterSavedMaster ==
    \A k \in Events("pose_req") \cup Events("gate") :
        /\ log[k].prompt = clean_name
        /\ \E j \in 1..(k - 1) :
              /\ log[j].type = "master_res"
              /\ log[j].prompt = clean_name
              /\ log[j].outcome = "saved"
              /\ ~IsNone(log[j].data)
        /\ \A j \in Events("master_res") : log[j].outcome = "saved"
        /\ FileExists(MASTER_FILE)

C1_Witness ==
    /\ f = 2
    /\ Events("pose_req") # {}
    /\ FilesIn(<<splitext_root(files[1]), time_at(1)>>) = {}

\* C2: between any two pose requests of the same prompt a pause is executed,
\* whatever the outcome of the earlier request was.
C2_PauseBetweenPoseRequests ==
    \A a, b \in Events("pose_req") :
        (a < b /\ log[a].prompt = log[b].prompt)
            => \E c \in Events("sleep") : a < c /\ c < b

\* C3, state part: a prompt whose master request raised has no file and no
\* pose request, no prompt gets a second master request, every prompt whose
\* iteration has ended got exactly one, and the run ends after the last
\* prompt file only.
C3_State ==
    /\ (\E j \in Events("master_res") : log[j].outcome = "raised")
          => /\ FilesIn(current_output_dir) = {}
             /\ Events("pose_req") = {}
             /\ pc \in {"loop", "done"}
    /\ \A k \in 1..NumFiles :
          /\ issued[k] <= 1
          /\ (k < f \/ (k = f /\ pc # "master")) => issued[k] = 1
          /\ k > f => issued[k] = 0
    /\ Cardinality(Events("master_req")) = IF f >= 1 /\ pc # "master" THEN 1 ELSE 0
    /\ pc = "done" => f = NumFiles

\* C3: an exception on a master request creates no file for that prompt,
\* every discovered prompt gets its master request exactly once, and the run
\* reaches its end.
C3_MasterFailureContinues == []C3_State /\ <>(pc = "done")

C3_Witness ==
    /\ pc = "master"
    /\ f = 2
    /\ FilesIn(<<splitext_root(files[1]), time_at(1)>>) = {}
    /\ issued[1] = 1

\* C4: once the operator confirmed, the pose requests of the prompt are the
\* labels of the list in order, each once, none repeated; when the prompt's
\* iteration has ended all of them were requested whatever their outcomes,
\* and the remaining prompts are still processed.
C4_EveryPoseRequestedOnce ==
    /\ LET reqs == PoseReqs IN
       /\ Len(reqs) <= Len(POSES)
       /\ \A n \in 1..Len(reqs) :
             /\ reqs[n].index = n
             /\ reqs[n].label = POSES[n]
             /\ reqs[n].prompt = clean_name
       /\ (Finished /\ \E g \in Events("gate") : log[g].proceed)
             => Len(reqs) = Len(POSES)
    /\ pc = "done" => \A k \in 1..NumFiles : issued[k] = 1

C4_Witness ==
    /\ Finished
    /\ \E j \in Events("pose_res") : log[j].index = 1 /\ ~log[j].returned
    /\ \E j \in Events("pose_res") : log[j].index = Len(POSES) /\ log[j].returned

\* the data of the first part that carries inline data
FirstImageOf(response) ==
    LET parts == response.candidates.val[1].content.val.parts.val
        k == CHOOSE n \in 1..Len(parts) :
                 /\ ~IsNone(parts[n].inline_data)
                 /\ \A m \in 1..(n - 1) : IsNone(parts[m].inline_data)
    IN parts[k].inline_data.val

\* C5: save_image never raises: a response without inline image data gives
\* the not-found signal and no file, a response with inline image data
\* gives the bytes of the first such part and a file.
C5_SaveImageNeverFails ==
    io.op = "save" =>
        /\ ~io.result.raised
        /\ ~HasInlineImage(io.response) =>
              /\ IsNone(io.result.ret)
              /\ io.path \notin fs
        /\ HasInlineImage(io.response) =>
              /\ io.result.ret = Some(FirstImageOf(io.response))
              /\ io.path \in fs

\* C6: the gate proceeds to the pose loop exactly when the line is "y" or
\* "Y" surrounded by whitespace only; any other line moves to the next prompt
\* file and no pose request is ever issued for the prompt.
C6_GateProceedsIffY ==
    /\ io.op = "gate" =>
          /\ log[Len(log)].type = "gate"
          /\ log[Len(log)].proceed <=> TrimsTo(io.line, {"y", "Y"})
          /\ pc = IF TrimsTo(io.line, {"y", "Y"}) THEN "poses" ELSE "loop"
    /\ (\E g \in Events("gate") : ~log[g].proceed)
          => /\ Events("pose_req") = {}
             /\ pc \in {"loop", "done"}

C6_Witness ==
    /\ io.op = "gate"
    /\ io.line = <<" ", "Y", " ">>
    /\ pc = "poses"

\* every request issued names the selected model
RequestsUseSelectedModel ==
    /\ pc # "select" => SELECTED_MODEL \in {FLASH, PRO}
    /\ \A k \in Events("master_req") \cup Events("pose_req") :
          log[k].model = SELECTED_MODEL

\* the selection is made once
SelectionKept == [][pc # "select" => SELECTED_MODEL' = SELECTED_MODEL]_vars

\* C7 as stated: the untrimmed line "1" selects the first model, the
\* untrimmed line "2" the second, any other line the first.
C7_ExactLineMatch ==
    /\ io.op = "select" =>
          SELECTED_MODEL = IF io.line = <<"2">> THEN PRO ELSE FLASH
    /\ RequestsUseSelectedModel

\* the selection follows the line with its surrounding whitespace trimmed
TrimmedLineSelects ==
    /\ io.op = "select" =>
          SELECTED_MODEL = IF TrimsTo(io.line, {"2"}) THEN PRO ELSE FLASH
    /\ RequestsUseSelectedModel

\* C7 amended: the line is matched after its surrounding whitespace is
\* trimmed: "2" between whitespace selects the second model, everything else
\* the first; the selection is never changed and every request of the run
\* names the selected model.
C7_TrimmedLineMatch == []TrimmedLineSelects /\ SelectionKept

C7_Witness ==
    /\ io.op = "select"
    /\ io.line = <<" ", "2">>
    /\ SELECTED_MODEL = PRO

\* C8: pose_k.png exists in the prompt's run directory exactly when the
\* k-th pose request of the prompt returned image data; the run directory
\* holds no other file than the master file and these.
C8_PoseFileIffReturned ==
    /\ f >= 1 =>
          /\ \A k \in 1..Len(POSES) :
                FileExists(<<"pose_", k, ".png">>)
                    <=> \E j \in Events("pose_res") :
                            log[j].index = k /\ log[j].returned
          /\ (\E j \in Events("gate") : log[j].proceed) => FileExists(MASTER_FILE)
    /\ \A path \in fs :
          /\ path[2] \in {MASTER_FILE} \cup PoseFileNames
          /\ path[1] \in dirs

C8_Witness ==
    /\ Finished
    /\ ~FileExists(<<"pose_", 1, ".png">>)
    /\ FileExists(<<"pose_", 2, ".png">>)
    /\ \E j \in Events("pose_res") : log[j].index = 1 /\ ~log[j].returned

\* C9: a prompt whose iteration has begun has exactly one run directory,
\* named by the prompt, created by one makedirs call that precedes the
\* master request; a prompt not yet begun has none.
C9_RunDirectoryOnce ==
    /\ \A k \in 1..NumFiles :
          Cardinality({d \in dirs : d[1] = splitext_root(files[k])})
              = IF k <= f THEN 1 ELSE 0
    /\ f >= 1 =>
          /\ Events("makedirs") = {1}
          /\ log[1].dir = current_output_dir
          /\ log[1].dir = <<clean_name, time_at(f)>>
          /\ current_output_dir \in dirs

C9_Witness ==
    /\ pc = "loop"
    /\ \E j \in Events("master_res") : log[j].outcome = "raised"
    /\ current_output_dir \in dirs

\* C10: every pose request carries the bytes the master request of the same
\* prompt returned, and the bytes are reset when a prompt begins.
C10_PoseCarriesOwnMaster ==
    /\ \A k \in Events("pose_req") :
          /\ ~IsNone(log[k].image)
          /\ Events("master_res") # {}
          /\ \A j \in Events("master_res") :
                log[j].data = log[k].image /\ log[j].prompt = log[k].prompt
    /\ pc = "master" => IsNone(master_image_bytes)

C10_Witness ==
    /\ f = 2
    /\ <<<<splitext_root(files[1]), time_at(1)>>, MASTER_FILE>> \in fs
    /\ \E k \in Events("pose_req") : log[k].image = Some(2)
====
